---- MODULE Spec2Model ----
(***************************************************************************)
(* Trivia API (backend/flaskr/__init__.py): the request handlers of the    *)
(* Flask application over the questions table.                             *)
(*                                                                         *)
(* Encoding of values.  A JSON value is a tagged tuple: <<"int", n>>,      *)
(* <<"str", s>>, <<"list", S>>, and <<"absent">> for a key the body does   *)
(* not hold.  A string is a sequence of one-character strings, so that     *)
(* case folding, pattern matching and integer parsing are computed.        *)
(* A JSON list of ids is kept as the set of its members: the code only     *)
(* tests membership in it (NOT IN).  JSON null (Python None) in a response *)
(* is the empty sequence <<>>, a question payload q is <<q>>.              *)
(***************************************************************************)
EXTENDS Integers, Sequences, FiniteSets, TLC

VARIABLES
    questions,  \* the questions table, in the order Question.query.all() enumerates it
    nextId,     \* the next value of the table's id sequence
    request,    \* the last request served: its operation and inputs
    response,   \* the response to it
    session     \* the client's state in a quiz game or a page walk

vars == <<questions, nextId, request, response, session>>

\* ------------------------------------------------------------ bounds

MaxId == 2         \* ids the id sequence hands out in Spec
MaxQuizN == 3      \* questions in the store of a quiz game
MaxN == 23         \* questions in the store of a page walk

\* ------------------------------------------------------------ values

QUESTIONS_PER_PAGE == 10

Absent == <<"absent">>
JInt(n) == <<"int", n>>
JStr(s) == <<"str", s>>
JList(S) == <<"list", S>>

\* Python truthiness of a JSON value: `question and answer and ...`
Truthy(v) ==
    CASE v[1] = "int" -> v[2] # 0
      [] v[1] = "str" -> v[2] # <<>>
      [] v[1] = "list" -> v[2] # {}
      [] OTHER -> FALSE

\* dict.get(key, default)
BodyGet(v, default) == IF v = Absent THEN default ELSE v

Digits == <<"0", "1", "2", "3", "4", "5", "6", "7", "8", "9">>

\* str(n) for a number of one digit
ToStr(n) == <<Digits[n + 1]>>

DigitValue(c) == CHOOSE d \in 0..9 : Digits[d + 1] = c

IsDigit(c) == \E d \in 0..9 : Digits[d + 1] = c

RECURSIVE DigitsValue(_)
DigitsValue(s) ==
    IF s = <<>> THEN 0
    ELSE 10 * DigitsValue(SubSeq(s, 1, Len(s) - 1)) + DigitValue(s[Len(s)])

AllDigits(s) == s # <<>> /\ \A i \in 1..Len(s) : IsDigit(s[i])

\* int(s): <<"ok", n>>, or <<"err">> where Python raises ValueError
ParseInt(s) ==
    IF AllDigits(s) THEN <<"ok", DigitsValue(s)>>
    ELSE IF s # <<>> /\ s[1] = "-" /\ AllDigits(Tail(s)) THEN <<"ok", 0 - DigitsValue(Tail(s))>>
    ELSE <<"err">>

\* request.args.get(key, default, type=int): the default when the key is
\* absent or its value does not convert
ArgsGetInt(raw, default) ==
    IF raw = Absent THEN default
    ELSE IF ParseInt(raw[2])[1] = "ok" THEN ParseInt(raw[2])[2]
    ELSE default

Min(a, b) == IF a < b THEN a ELSE b
Max(a, b) == IF a > b THEN a ELSE b

\* Python's s[start:end] on a list: a negative index counts from the end,
\* and both are clamped to the list
SliceIndex(i, n) == IF i < 0 THEN Max(i + n, 0) ELSE Min(i, n)

Slice(s, start, end) ==
    SubSeq(s, SliceIndex(start, Len(s)) + 1, SliceIndex(end, Len(s)))

\* ------------------------------------------------------------ the store

Lower(c) ==
    CASE c = "A" -> "a"
      [] c = "B" -> "b"
      [] OTHER -> c

\* SQL LIKE, case folded: % matches any run of characters, _ any one
RECURSIVE Like(_, _)
Like(p, t) ==
    IF p = <<>> THEN t = <<>>
    ELSE IF Head(p) = "%" THEN Like(Tail(p), t) \/ (t # <<>> /\ Like(p, Tail(t)))
    ELSE /\ t # <<>>
         /\ (Head(p) = "_" \/ Lower(Head(p)) = Lower(Head(t)))
         /\ Like(Tail(p), Tail(t))

\* Question.question.ilike(f'%{search_term}%')
ILike(text, search_term) == Like(<<"%">> \o search_term \o <<"%">>, text)

\* the value a text column holds for a JSON value written to it
AsText(v) == IF v[1] = "int" THEN ToStr(v[2]) ELSE v[2]

\* Question(question=, answer=, category=, difficulty=) with the id the insert assigns
Question(id, question, answer, category, difficulty) ==
    [id |-> id, question |-> AsText(question), answer |-> AsText(answer),
     category |-> AsText(category), difficulty |-> difficulty[2]]

\* question.format()
format(q) ==
    [id |-> q.id, question |-> q.question, answer |-> q.answer,
     category |-> q.category, difficulty |-> q.difficulty]

\* [f(x) for x in xs]
FormatAll(qs) == [i \in 1..Len(qs) |-> format(qs[i])]

Ids(qs) == {qs[i].id : i \in 1..Len(qs)}

Range(s) == {s[i] : i \in 1..Len(s)}

\* ------------------------------------------------------------ responses

\* the errorhandler of each status
bad_request == [status |-> 400, success |-> FALSE, error |-> 400, message |-> "Bad request"]
not_found == [status |-> 404, success |-> FALSE, error |-> 404, message |-> "Resource not found"]
unprocessable_entity ==
    [status |-> 422, success |-> FALSE, error |-> 422, message |-> "Unprocessable entity"]
\* abort(code)
Abort(code) ==
    CASE code = 400 -> bad_request
      [] code = 404 -> not_found
      [] code = 422 -> unprocessable_entity

\* the categories table: id -> type; no handler writes it
Categories == <<"Science", "Art">>

\* {category.id: category.type for category in categories}
FormattedCategories == [c \in DOMAIN Categories |-> Categories[c]]

\* ------------------------------------------------------------ GET /questions

\* as GetQuestionsResponse, counting the page instead of the table
GetQuestionsResponsePageTotal(qs, rawPage) ==
    LET page == ArgsGetInt(rawPage, 1)
        start == (page - 1) * QUESTIONS_PER_PAGE
        end == start + QUESTIONS_PER_PAGE
        formatted_questions == FormatAll(qs)
        current_questions == Slice(formatted_questions, start, end)
    IN  IF Len(current_questions) = 0 THEN Abort(404)
        ELSE [status |-> 200, success |-> TRUE,
              questions |-> current_questions,
              total_questions |-> Len(current_questions),
              categories |-> FormattedCategories,
              current_category |-> <<>>]

GetQuestionsResponse(qs, rawPage) ==
    LET page == ArgsGetInt(rawPage, 1)
        start == (page - 1) * QUESTIONS_PER_PAGE
        end == start + QUESTIONS_PER_PAGE
        formatted_questions == FormatAll(qs)
        current_questions == Slice(formatted_questions, start, end)
    IN  IF Len(current_questions) = 0 THEN Abort(404)
        ELSE [status |-> 200, success |-> TRUE,
              questions |-> current_questions,
              total_questions |-> Len(formatted_questions),
              categories |-> FormattedCategories,
              current_category |-> <<>>]

get_questions(rawPage) ==
    /\ request' = [op |-> "get_questions", page |-> rawPage]
    /\ response' = GetQuestionsResponse(questions, rawPage)
    /\ UNCHANGED <<questions, nextId, session>>

\* ------------------------------------------------------------ DELETE /questions/<id>

\* as delete_question, deleting the first row of the table instead of the row found
delete_questionFirstRow(question_id, store_fails) ==
    LET found == SelectSeq(questions, LAMBDA q : q.id = question_id)
    IN  /\ request' = [op |-> "delete_question", question_id |-> question_id,
                       store_fails |-> store_fails]
        /\ IF found = <<>>
           THEN /\ response' = Abort(404)
                /\ UNCHANGED questions
           ELSE IF store_fails
           THEN /\ response' = Abort(422)
                /\ UNCHANGED questions
           ELSE /\ questions' = Tail(questions)
                /\ response' = [status |-> 200, success |-> TRUE, deleted |-> question_id]
        /\ UNCHANGED <<nextId, session>>

\* store_fails: question.delete() raises (the store's failure)
delete_question(question_id, store_fails) ==
    LET found == SelectSeq(questions, LAMBDA q : q.id = question_id)
    IN  /\ request' = [op |-> "delete_question", question_id |-> question_id,
                       store_fails |-> store_fails]
        /\ IF found = <<>>
           THEN /\ response' = Abort(404)
                /\ UNCHANGED questions
           ELSE IF store_fails
           THEN /\ response' = Abort(422)
                /\ UNCHANGED questions
           ELSE /\ questions' = SelectSeq(questions, LAMBDA q : q.id # question_id)
                /\ response' = [status |-> 200, success |-> TRUE, deleted |-> question_id]
        /\ UNCHANGED <<nextId, session>>

\* ------------------------------------------------------------ POST /questions

required_fields == {"question", "answer", "category", "difficulty"}

\* as create_question, without the check that the four values are non-empty
create_questionNoEmptyCheck(body, store_fails) ==
    /\ request' = [op |-> "create_question", body |-> body, store_fails |-> store_fails]
    /\ IF ~ \A field \in required_fields : body[field] # Absent
       THEN /\ response' = Abort(400)
            /\ UNCHANGED <<questions, nextId>>
       ELSE IF store_fails
       THEN /\ response' = Abort(422)
            /\ UNCHANGED <<questions, nextId>>
       ELSE /\ nextId <= MaxId
            /\ questions' = Append(questions,
                   Question(nextId, body.question, body.answer, body.category, body.difficulty))
            /\ nextId' = nextId + 1
            /\ response' = [status |-> 200, success |-> TRUE, created |-> nextId]
    /\ UNCHANGED session

create_question(body, store_fails) ==
    /\ request' = [op |-> "create_question", body |-> body, store_fails |-> store_fails]
    /\ IF ~ \A field \in required_fields : body[field] # Absent
       THEN /\ response' = Abort(400)
            /\ UNCHANGED <<questions, nextId>>
       ELSE IF ~ \A field \in required_fields : Truthy(body[field])
       THEN /\ response' = Abort(400)
            /\ UNCHANGED <<questions, nextId>>
       ELSE IF store_fails
       THEN /\ response' = Abort(422)
            /\ UNCHANGED <<questions, nextId>>
       ELSE /\ nextId <= MaxId
            /\ questions' = Append(questions,
                   Question(nextId, body.question, body.answer, body.category, body.difficulty))
            /\ nextId' = nextId + 1
            /\ response' = [status |-> 200, success |-> TRUE, created |-> nextId]
    /\ UNCHANGED session

\* ------------------------------------------------------------ POST /questions/search

\* as SearchQuestionsResponse, without the abort on an empty result
SearchQuestionsResponseNoAbort(qs, rawTerm) ==
    LET search_term == BodyGet(rawTerm, JStr(<<>>))
        found == SelectSeq(qs, LAMBDA q : ILike(q.question, search_term[2]))
        formatted_questions == FormatAll(found)
    IN  IF Truthy(search_term)
        THEN [status |-> 200, success |-> TRUE,
              questions |-> formatted_questions,
              total_questions |-> Len(formatted_questions),
              current_category |-> <<>>]
        ELSE [status |-> 200, success |-> TRUE, questions |-> <<>>,
              total_questions |-> 0, current_category |-> <<>>]

SearchQuestionsResponse(qs, rawTerm) ==
    LET search_term == BodyGet(rawTerm, JStr(<<>>))
        found == SelectSeq(qs, LAMBDA q : ILike(q.question, search_term[2]))
        formatted_questions == FormatAll(found)
    IN  IF Truthy(search_term)
        THEN IF Len(formatted_questions) = 0 THEN Abort(404)
             ELSE [status |-> 200, success |-> TRUE,
                   questions |-> formatted_questions,
                   total_questions |-> Len(formatted_questions),
                   current_category |-> <<>>]
        ELSE [status |-> 200, success |-> TRUE, questions |-> <<>>,
              total_questions |-> 0, current_category |-> <<>>]

search_questions(rawTerm) ==
    /\ request' = [op |-> "search_questions", searchTerm |-> rawTerm]
    /\ response' = SearchQuestionsResponse(questions, rawTerm)
    /\ UNCHANGED <<questions, nextId, session>>

\* ------------------------------------------------------------ POST /quizzes

\* Question.category == v in the store: the column is text, and the store
\* has no text = integer comparison (the statement is rejected)
TextComparable(v) == v[1] = "str"

\* as QuizQuery, without the exclusion in the query of one category
QuizQueryNoExclusion(qs, id, previous_questions) ==
    IF id = JInt(0)
    THEN SelectSeq(qs, LAMBDA q : q.id \notin previous_questions)
    ELSE SelectSeq(qs, LAMBDA q : q.category = id[2])

\* the rows of the query of play_quiz; the caller has checked TextComparable
QuizQuery(qs, id, previous_questions) ==
    IF id = JInt(0)
    THEN SelectSeq(qs, LAMBDA q : q.id \notin previous_questions)
    ELSE SelectSeq(qs, LAMBDA q : q.category = id[2] /\ q.id \notin previous_questions)

\* the body of the try block: the set of its outcomes, each a returned
\* response or a raised exception (abort raises an HTTPException)
TryPlayQuiz(qs, body) ==
    LET previous_questions == BodyGet(body.previous_questions, JList({}))[2]
        quiz_category == body.quiz_category
    IN  IF quiz_category = Absent
        THEN {[raised |-> TRUE, resp |-> Abort(400)]}
        ELSE IF quiz_category # JInt(0) /\ ~ TextComparable(quiz_category)
        THEN {[raised |-> TRUE, resp |-> [status |-> 500, success |-> FALSE]]}
        ELSE LET found == QuizQuery(qs, quiz_category, previous_questions)
             IN  IF Len(found) = 0
                 THEN {[raised |-> FALSE,
                        resp |-> [status |-> 200, success |-> TRUE, question |-> <<>>]]}
                 ELSE {[raised |-> FALSE,
                        resp |-> [status |-> 200, success |-> TRUE,
                                  question |-> <<format(found[i])>>]] : i \in 1..Len(found)}

\* except Exception: abort(422)
PlayQuizResponses(qs, body) ==
    {IF o.raised THEN Abort(422) ELSE o.resp : o \in TryPlayQuiz(qs, body)}

play_quiz(body) ==
    /\ request' = [op |-> "play_quiz", body |-> body]
    /\ response' \in PlayQuizResponses(questions, body)
    /\ UNCHANGED <<questions, nextId, session>>

\* ------------------------------------------------------------ requests

Texts == {<<"A", "b">>, <<"b">>}
SearchTerms == {<<>>, <<"a">>, <<"B">>, <<"a", "a">>, <<"_", "b">>, <<"%">>}
RawPages == {Absent} \cup {JStr(s) : s \in {<<"x">>, <<"0">>, <<"1">>, <<"2">>, <<"3">>,
                                             <<"4">>, <<"-", "1">>, <<"-", "2">>}}
CreateBodies ==
    [question : {Absent, JStr(<<>>)} \cup {JStr(t) : t \in Texts},
     answer : {Absent, JStr(<<"b">>)},
     category : {Absent, JInt(0), JInt(1), JStr(<<"2">>)},
     difficulty : {Absent, JInt(1)}]
QuizCategories == {Absent, JInt(0), JInt(1), JStr(<<"1">>), JStr(<<"2">>)}
QuizBodies ==
    [previous_questions : {Absent} \cup {JList(S) : S \in SUBSET (1..MaxId)},
     quiz_category : QuizCategories]

NoRequest == [op |-> "none"]
NoSession == [kind |-> "none"]

Init ==
    /\ questions = <<>>
    /\ nextId = 1
    /\ request = NoRequest
    /\ response = NoRequest
    /\ session = NoSession

Next ==
    \/ \E rawPage \in RawPages : get_questions(rawPage)
    \/ \E question_id \in 1..(MaxId + 1), store_fails \in BOOLEAN :
           delete_question(question_id, store_fails)
    \/ \E body \in CreateBodies, store_fails \in BOOLEAN : create_question(body, store_fails)
    \/ \E rawTerm \in {Absent} \cup {JStr(t) : t \in SearchTerms} : search_questions(rawTerm)
    \/ \E body \in QuizBodies : play_quiz(body)

Spec == Init /\ [][Next]_vars

\* ------------------------------------------------------------ a page walk

\* the table after n inserts
StoreOf(n, category) ==
    [i \in 1..n |-> Question(i, JStr(IF i % 2 = 0 THEN <<"A", "b">> ELSE <<"b">>),
                             JStr(<<"b">>), JStr(category[i]), JInt(1))]

\* ceil(n / QUESTIONS_PER_PAGE)
PageCount(n) == (n + QUESTIONS_PER_PAGE - 1) \div QUESTIONS_PER_PAGE

InitPages ==
    /\ \E n \in 1..MaxN : questions = StoreOf(n, [i \in 1..n |-> ToStr(1 + (i % 2))])
    /\ nextId = Len(questions) + 1
    /\ request = NoRequest
    /\ response = NoRequest
    /\ session = [kind |-> "pages", page |-> 1, seen |-> <<>>, totals |-> {}, errors |-> 0]

\* the client asks for the next page and appends what it gets
next_page ==
    LET rawPage == JStr(ToStr(session.page))
        r == GetQuestionsResponse(questions, rawPage)
    IN  /\ session.kind = "pages"
        /\ session.page <= PageCount(Len(questions))
        /\ request' = [op |-> "get_questions", page |-> rawPage]
        /\ response' = r
        /\ session' = IF r.status = 200
                      THEN [session EXCEPT !.page = @ + 1,
                                           !.seen = @ \o r.questions,
                                           !.totals = @ \cup {r.total_questions}]
                      ELSE [session EXCEPT !.page = @ + 1, !.errors = @ + 1]
        /\ UNCHANGED <<questions, nextId>>

NextPages ==
    \/ \E rawPage \in RawPages : get_questions(rawPage)
    \/ next_page

SpecPages == InitPages /\ [][NextPages]_vars

\* ------------------------------------------------------------ a quiz game

InitQuiz ==
    /\ \E n \in 0..MaxQuizN : \E category \in [1..n -> {<<"1">>, <<"2">>}] :
           questions = StoreOf(n, category)
    /\ nextId = Len(questions) + 1
    /\ request = NoRequest
    /\ response = NoRequest
    /\ \E quiz_category \in QuizCategories \ {Absent} :
           session = [kind |-> "quiz", quiz_category |-> quiz_category,
                      previous_questions |-> {}, asked |-> <<>>,
                      over |-> FALSE, failed |-> FALSE]

\* the client asks for the next question with the ids it was given so far
quiz_turn ==
    LET body == [previous_questions |-> JList(session.previous_questions),
                 quiz_category |-> session.quiz_category]
    IN  /\ session.kind = "quiz"
        /\ ~ session.over /\ ~ session.failed
        /\ request' = [op |-> "play_quiz", body |-> body]
        /\ \E r \in PlayQuizResponses(questions, body) :
              /\ response' = r
              /\ session' =
                    IF r.status # 200 THEN [session EXCEPT !.failed = TRUE]
                    ELSE IF r.question = <<>> THEN [session EXCEPT !.over = TRUE]
                    ELSE [session EXCEPT !.previous_questions = @ \cup {r.question[1].id},
                                         !.asked = Append(@, r.question[1].id)]
        /\ UNCHANGED <<questions, nextId>>

NextQuiz == quiz_turn

SpecQuiz == InitQuiz /\ [][NextQuiz]_vars

\* ------------------------------------------------------------ properties

\* previous_questions of the last play_quiz request
AskedBefore == BodyGet(request.body.previous_questions, JList({}))[2]

\* the stored questions a quiz over the category `id` may still ask:
\* category equal to the id as the same kind of value, id not excluded
Eligible(id, previous_questions) ==
    {q \in Range(questions) :
        /\ id # JInt(0) => q.category = AsText(id)
        /\ q.id \notin previous_questions}

\* the question payloads a set of play_quiz responses holds
Returned(responses) ==
    {r.question[1] : r \in {x \in responses : x.status = 200 /\ x.question # <<>>}}

\* C1: a play_quiz request without quiz_category is answered with the
\* bad-request error 400, whatever the store and previous_questions.
C1_MissingCategoryIsBadRequest ==
    (request.op = "play_quiz" /\ request.body.quiz_category = Absent)
        => (response.status = 400 /\ response.message = "Bad request")

\* C2: a question play_quiz returns has an id outside previous_questions
\* and is a question of the store at the time of the call.
C2_ReturnedIsStoredAndNotExcluded ==
    (request.op = "play_quiz" /\ response.status = 200 /\ response.question # <<>>)
        => /\ response.question[1].id \notin AskedBefore
           /\ \E i \in 1..Len(questions) : response.question[1] = format(questions[i])

C2_Witness ==
    /\ request.op = "play_quiz" /\ response.status = 200 /\ response.question # <<>>
    /\ AskedBefore \cap Ids(questions) # {}
    /\ Len(questions) >= 2

\* C3: with a concrete category filter, the questions play_quiz can return
\* are exactly the stored questions of that category that are not excluded.
C3_ConcreteFilterReturnsExactlyCategory ==
    \A id \in QuizCategories \ {Absent, JInt(0)} : \A S \in SUBSET (1..MaxId) :
        Returned(PlayQuizResponses(questions,
                     [previous_questions |-> JList(S), quiz_category |-> id]))
            = {format(q) : q \in Eligible(id, S)}

\* C4: in a quiz game over an unchanging store no question is asked twice,
\* no turn is answered with an error, and the game is over after exactly as
\* many questions as match the filter.
C4_GameAsksEachMatchingQuestionOnce ==
    session.kind = "quiz"
        => /\ ~ session.failed
           /\ \A i, j \in 1..Len(session.asked) :
                  session.asked[i] = session.asked[j] => i = j
           /\ session.over
                  => Len(session.asked) = Cardinality(Eligible(session.quiz_category, {}))

\* C5: walking pages 1..ceil(N/10) of an unchanging store of N >= 1
\* questions yields, in page order, the whole sequence, each question once,
\* and every response reports total_questions = N.
C5_PagesConcatenateToAll ==
    session.kind = "pages"
        => /\ session.errors = 0
           /\ session.seen = SubSeq(FormatAll(questions), 1,
                                    Min((session.page - 1) * QUESTIONS_PER_PAGE, Len(questions)))
           /\ session.page > 1 => session.totals = {Len(questions)}
           /\ session.page > PageCount(Len(questions))
                  => /\ session.seen = FormatAll(questions)
                     /\ \A i, j \in 1..Len(session.seen) :
                            session.seen[i].id = session.seen[j].id => i = j

C5_Witness ==
    /\ session.kind = "pages"
    /\ session.page > PageCount(Len(questions))
    /\ Len(questions) > 2 * QUESTIONS_PER_PAGE
    /\ Len(questions) % QUESTIONS_PER_PAGE # 0

\* the last search request holds a non-empty term that selects no stored question
SearchedWithoutMatch ==
    /\ request.op = "search_questions"
    /\ request.searchTerm # Absent
    /\ request.searchTerm[2] # <<>>
    /\ ~ \E i \in 1..Len(questions) : ILike(questions[i].question, request.searchTerm[2])

\* C6 (as claimed): a search with a non-empty term that matches no stored
\* question succeeds with an empty list and count 0.
C6_NoMatchIsEmptySuccess ==
    SearchedWithoutMatch
        => /\ response.status = 200
           /\ response.questions = <<>>
           /\ response.total_questions = 0

\* C6 (amended): a search with a non-empty term that matches no stored
\* question is answered with the not-found error 404; the successful empty
\* list with count 0 answers only an empty or absent term.
C6_NoMatchIsNotFound ==
    /\ SearchedWithoutMatch
           => (response.status = 404 /\ response.success = FALSE /\ response.error = 404)
    /\ (request.op = "search_questions" /\ response.status = 200 /\ response.questions = <<>>)
           => (response.total_questions = 0 /\ BodyGet(request.searchTerm, JStr(<<>>))[2] = <<>>)

C6_Witness ==
    /\ SearchedWithoutMatch
    /\ questions # <<>>
    /\ response.status = 404

C8_DeleteMissingIsUnprocessable ==
    [][(request'.op = "delete_question" /\ request'.question_id \notin Ids(questions))
         => /\ response'.status = 422
            /\ response'.success = FALSE
            /\ response'.error = 422
            /\ response'.message = "Unprocessable entity"]_vars

AllPresent(body) == \A field \in required_fields : body[field] # Absent

AllFilled(body) == \A field \in required_fields : Truthy(body[field])

\* the step adds one question, with an id no stored question has, and reports it
CreatedOne ==
    /\ response'.status = 200
    /\ Len(questions') = Len(questions) + 1
    /\ SubSeq(questions', 1, Len(questions)) = questions
    /\ questions'[Len(questions')].id \notin Ids(questions)
    /\ response'.created = questions'[Len(questions')].id

\* C9 (as claimed): create_question with a field absent is answered 400 and
\* changes nothing; with all four present it adds one question, with a new
\* id, returned as 'created' (the store's insert not failing).
C9_CreateWhenAllPresent ==
    [][request'.op = "create_question"
         => IF AllPresent(request'.body)
            THEN request'.store_fails \/ CreatedOne
            ELSE response'.status = 400 /\ questions' = questions]_vars

\* C9 (amended): create_question with a field absent or empty (falsy) is
\* answered 400 and changes nothing; with all four present and non-empty
\* it adds one question, with a new id, returned as 'created', unless the
\* store's insert fails, which is answered 422 and changes nothing.
C9_CreateWhenAllFilled ==
    [][request'.op = "create_question"
         => IF ~ (AllPresent(request'.body) /\ AllFilled(request'.body))
            THEN response'.status = 400 /\ questions' = questions
            ELSE IF request'.store_fails
            THEN response'.status = 422 /\ questions' = questions
            ELSE CreatedOne]_vars

C9_Witness ==
    /\ request.op = "create_question"
    /\ response.status = 200
    /\ Len(questions) >= 2
    /\ questions[Len(questions)].id = response.created

\* the page parameter of the last get_questions request is absent,
\* not a number, or a number <= 0
PageMissingOrNotPositive ==
    /\ request.op = "get_questions"
    /\ \/ request.page = Absent
       \/ ParseInt(request.page[2])[1] = "err"
       \/ ParseInt(request.page[2])[2] <= 0

\* C10: get_questions with the page absent, unparseable or non-positive
\* answers as for page 1: the first up-to-10 questions of a non-empty store.
C10_BadPageIsPageOne ==
    (PageMissingOrNotPositive /\ questions # <<>>)
        => /\ response.status = 200
           /\ response.questions =
                  SubSeq(FormatAll(questions), 1, Min(QUESTIONS_PER_PAGE, Len(questions)))

====
